---- MODULE Spec2Model ----
(***************************************************************************)
(* A model of ClickBooster.py: the ClickSimulator (listener callback       *)
(* _on_click, worker thread _worker_loop, start/stop) and the              *)
(* SensitivityEngine (damping loop).                                       *)
(*                                                                         *)
(* Times are integers in milliseconds.  Damping weights are fixed-point    *)
(* integers, One standing for 1.0, so that step_down, step_up, the         *)
(* multiplier and the 0.995 cut-off are all exact.                         *)
(*                                                                         *)
(* Threads are indexed by the call of start() that spawned them.  In the    *)
(* callback, the worker, start() and stop() every statement that reads or  *)
(* writes shared state is a step of its own: the Python interpreter may    *)
(* switch threads between any two of them.                                 *)
(***************************************************************************)
EXTENDS Integers, Sequences, FiniteSets

(* ------------------------- DEFAULT_CONFIG ------------------------------ *)
HARD_CPS_LIMIT == 18
TARGET_CPS_LOW == 15
TARGET_CPS_HIGH == 17
\* "DOUBLE_CLICK_THRESHOLD": 0.15 s, in ms
DOUBLE_CLICK_THRESHOLD == 150
CPS_SLOWDOWN_THRESHOLD == 10
\* "SENS_MULTIPLIER": 0.5, in percent
SENS_MULTIPLIER == 50
SENS_RAMP_DOWN_MS == 40
SENS_RAMP_UP_MS == 15
\* "CPS_WINDOW_SECONDS": 0.3 s, in ms
CPS_WINDOW_SECONDS == 300
STALE_TIMEOUT_MS == 100
POLLING_RATE_HZ == 250

TRIGGER_BUTTONS == {"left", "right"}
\* the buttons the user presses in the runs explored: a trigger button and
\* one that is not ("right" is handled as "left" is)
Buttons == {"left", "middle"}

\* __main__ calls sim.start() once
MainStarts == 1

(* ------------------------------ bounds --------------------------------- *)
\* calls of start() by a host that uses the class directly (SpecApi)
ApiStarts == 2
\* physical qualifying presses delivered to the listener
MaxClicks == 3
\* steps of the clock in the thread-level specifications
MaxTicks == 1
\* calls of stop()
MaxStops == 1
\* physical qualifying presses in the specification with fairness
LiveClicks == 2
\* physical qualifying presses when start() is called more than once
ApiClicks == 1
\* clicks recorded while the damping loop is followed tick by tick
MaxDampClicks == 3
\* ticks of the damping loop that are followed
MaxDampTicks == 28
\* presses and steps of the clock when a timestamp can leave the window
EvictClicks == 2
EvictTicks == 2
\* recorded timestamps, and tenths of a second of the clock, given to get_total_cps
MaxRateLen == 3
MaxRateTime == 5
\* subdivisions of the ranges random.uniform draws the delay and the hold from
PaceGrid == 12
\* the cursor stays on the pixels 1..MaxCoord by 1..MaxCoord
MaxCoord == 4
\* the clicks of the specification with the mouse come within this many ticks
MaxClickTick == 2

Starts == 1..ApiStarts
\* The thread-level specifications observe the clock every 200 ms: two reads
\* at the same instant are within the double-click threshold, one step apart
\* they are beyond it (and beyond the stale timeout) but within the CPS
\* window, two steps apart they are beyond the window.
ClockStep == 2 * STALE_TIMEOUT_MS

(* --------------------------- fixed point ------------------------------- *)
\* current_weight = 1.0
One == 3000
\* the cut-off 0.995 of the counter-movement
Cutoff == 2985

VARIABLES
  now,                  \* time.perf_counter(), ms
  total_click_history,  \* deque of [t |-> timestamp, synth |-> recorded by the worker]
  last_click_time,
  _work_queue,          \* queue.Queue of <<button, time>>
  _simulating,
  _is_listening,
  _listener,            \* 0 is None, otherwise the Listener made by that start()
  _running,             \* sens_engine._running
  current_weight,
  last_pos,             \* sens_engine.last_pos
  cursor,               \* the cursor position the OS holds
  last_move,            \* the relative move of the last damping tick, NoMove if none
  lst,                  \* Listener objects: "none", "created", "running", "stopped", "failed"
  mpc, starts,          \* start(): position, number of calls
  spc, stops,           \* stop(): position, number of calls
  dpc,                  \* damping loop threads
  wpc, wbutton, wleft, wt,      \* worker threads and their locals
  cpc, cbutton, ct, cprev,      \* listener callbacks and their locals
  clicks,               \* physical qualifying presses so far
  held,                 \* buttons the worker holds pressed (synthetic press, no release yet)
  \* history variables, read by no action
  stopKind,
  cPre, cGap,
  realPrev, realLast,
  lastTarget, rampTicks, rampFrom,
  burstPresses,         \* synthetic presses each worker has emitted in its current burst
  latePresses,          \* synthetic presses emitted while _is_listening was false
  delay, hold,          \* the worker's delay and hold time of one burst iteration, microseconds
  current_cps           \* the damping loop's current_cps, in thousandths of a click per second

vars == <<now, total_click_history, last_click_time, _work_queue, _simulating,
          _is_listening, _listener, _running, current_weight, last_pos, cursor, last_move,
          lst, mpc, starts, spc, stops, dpc,
          wpc, wbutton, wleft, wt, cpc, cbutton, ct, cprev, clicks, held,
          stopKind, cPre, cGap, realPrev, realLast,
          lastTarget, rampTicks, rampFrom,
          burstPresses, latePresses, delay, hold, current_cps>>

shared == <<total_click_history, last_click_time, _work_queue, _simulating,
            _is_listening, _listener, _running>>
dampPrivate == <<current_weight, last_pos, cursor, last_move, current_cps>>
rampVars == <<lastTarget, rampTicks, rampFrom>>
mainVars == <<mpc, starts, spc, stops, stopKind, lst>>
dampVars == <<dpc>>
workVars == <<wpc, wbutton, wleft, wt, held, burstPresses, latePresses, delay, hold>>
cbVars == <<cpc, cbutton, ct, cprev, clicks, cPre, cGap, realPrev, realLast>>

\* no value (a local that is not live, a timestamp that does not exist)
None == -1

Origin == [x |-> 0, y |-> 0]
NoMove == <<>>

(* ------------------- SensitivityEngine.__init__ ------------------------ *)
multiplier == (SENS_MULTIPLIER * One) \div 100
\* polling_ms = 1000 / POLLING_RATE_HZ
polling_ms == 1000 \div POLLING_RATE_HZ
\* step_down = 1.0 / (SENS_RAMP_DOWN_MS / polling_ms)
step_down == (One * polling_ms) \div SENS_RAMP_DOWN_MS
\* step_up = 1.0 / (SENS_RAMP_UP_MS / polling_ms)
step_up == (One * polling_ms) \div SENS_RAMP_UP_MS

Max(a, b) == IF a >= b THEN a ELSE b
Min(a, b) == IF a <= b THEN a ELSE b
Abs(a) == IF a >= 0 THEN a ELSE -a

(* ------------------ ClickSimulator.__init__ ---------------------------- *)
Init ==
  /\ now = 0
  /\ total_click_history = <<>>
  /\ last_click_time = 0
  /\ _work_queue = <<>>
  /\ _simulating = FALSE
  /\ _is_listening = FALSE
  /\ _listener = 0
  /\ _running = FALSE
  /\ current_weight = One
  /\ last_pos = Origin
  /\ cursor = Origin
  /\ last_move = NoMove
  /\ lst = [i \in Starts |-> "none"]
  /\ mpc = "idle" /\ starts = 0
  /\ spc = "idle" /\ stops = 0
  /\ dpc = [i \in Starts |-> "none"]
  /\ wpc = [i \in Starts |-> "none"]
  /\ wbutton = [i \in Starts |-> "no"]
  /\ wleft = [i \in Starts |-> 0]
  /\ burstPresses = [i \in Starts |-> 0]
  /\ latePresses = 0
  /\ delay = None /\ hold = None
  /\ current_cps = 0
  /\ wt = [i \in Starts |-> None]
  /\ cpc = [i \in Starts |-> "idle"]
  /\ cbutton = [i \in Starts |-> "no"]
  /\ ct = [i \in Starts |-> None]
  /\ cprev = [i \in Starts |-> None]
  /\ clicks = 0
  /\ held = {}
  /\ stopKind = 0
  /\ cPre = [i \in Starts |-> FALSE]
  /\ cGap = [i \in Starts |-> "none"]
  /\ realPrev = None /\ realLast = None
  /\ lastTarget = One /\ rampTicks = 0 /\ rampFrom = One

(* --------------------------- the clock --------------------------------- *)
Tick(maxTicks) ==
  /\ now < maxTicks * ClockStep
  /\ now' = now + ClockStep
  /\ UNCHANGED <<shared, dampPrivate, rampVars, mainVars, dampVars, workVars, cbVars>>

(* ------------------------ ClickSimulator.start ------------------------- *)
\* a call of start(); the host calls it at most maxStarts times, one call
\* after the other
StartCall(maxStarts) ==
  /\ mpc = "idle" /\ starts < maxStarts
  /\ starts' = starts + 1
  /\ mpc' = "set_flag"
  /\ UNCHANGED <<now, shared, dampPrivate, rampVars, spc, stops, stopKind, lst,
                 dampVars, workVars, cbVars>>

\* self._is_listening = True
StartSetFlag ==
  /\ mpc = "set_flag"
  /\ _is_listening' = TRUE
  /\ mpc' = "spawn_damper"
  /\ UNCHANGED <<now, total_click_history, last_click_time, _work_queue, _simulating,
                 _listener, _running, dampPrivate, rampVars, starts, spc, stops, stopKind,
                 lst, dampVars, workVars, cbVars>>

\* threading.Thread(target=self.sens_engine.loop, daemon=True).start()
StartSpawnDamper ==
  /\ mpc = "spawn_damper"
  /\ dpc' = [dpc EXCEPT ![starts] = "begin"]
  /\ mpc' = "spawn_worker"
  /\ UNCHANGED <<now, shared, dampPrivate, rampVars, starts, spc, stops, stopKind,
                 lst, workVars, cbVars>>

\* threading.Thread(target=self._worker_loop, daemon=True).start()
StartSpawnWorker ==
  /\ mpc = "spawn_worker"
  /\ wpc' = [wpc EXCEPT ![starts] = "loop"]
  /\ mpc' = "new_listener"
  /\ UNCHANGED <<now, shared, dampPrivate, rampVars, starts, spc, stops, stopKind,
                 lst, dampVars, wbutton, wleft, wt, held,
                 burstPresses, latePresses, delay, hold, cbVars>>

\* self._listener = mouse.Listener(on_click=self._on_click)
StartNewListener ==
  /\ mpc = "new_listener"
  /\ _listener' = starts
  /\ lst' = [lst EXCEPT ![starts] = "created"]
  /\ mpc' = "listener_start"
  /\ UNCHANGED <<now, total_click_history, last_click_time, _work_queue, _simulating,
                 _is_listening, _running, dampPrivate, rampVars, starts, spc, stops, stopKind,
                 dampVars, workVars, cbVars>>

\* self._listener.start(): a listener that stop() has already stopped stays
\* stopped
StartListenerStart ==
  /\ mpc = "listener_start"
  /\ lst' = [lst EXCEPT ![_listener] = IF @ = "created" THEN "running" ELSE @]
  /\ mpc' = "idle"
  /\ UNCHANGED <<now, shared, dampPrivate, rampVars, starts, spc, stops, stopKind,
                 dampVars, workVars, cbVars>>

(* ------------------------ ClickSimulator.stop -------------------------- *)
\* a call of stop(), at any moment; stopKind remembers where start() was
\* when the latest stop() was called: 1 not yet called, 2 in progress,
\* 3 returned (0: stop() was never called)
StopCall ==
  /\ spc = "idle" /\ stops < MaxStops
  /\ stops' = stops + 1
  /\ spc' = "clear_flag"
  /\ stopKind' = IF starts = 0 THEN 1 ELSE IF mpc # "idle" THEN 2 ELSE 3
  /\ UNCHANGED <<now, shared, dampPrivate, rampVars, mpc, starts, lst,
                 dampVars, workVars, cbVars>>

\* self._is_listening = False
StopClearFlag ==
  /\ spc = "clear_flag"
  /\ _is_listening' = FALSE
  /\ spc' = "engine_stop"
  /\ UNCHANGED <<now, total_click_history, last_click_time, _work_queue, _simulating,
                 _listener, _running, dampPrivate, rampVars, mpc, starts, stops, stopKind,
                 lst, dampVars, workVars, cbVars>>

\* self.sens_engine.stop(): self._running = False
EngineStop ==
  /\ spc = "engine_stop"
  /\ _running' = FALSE
  /\ spc' = "listener_stop"
  /\ UNCHANGED <<now, total_click_history, last_click_time, _work_queue, _simulating,
                 _is_listening, _listener, dampPrivate, rampVars, mpc, starts, stops, stopKind,
                 lst, dampVars, workVars, cbVars>>

\* if self._listener: self._listener.stop()
StopListener ==
  /\ spc = "listener_stop"
  /\ lst' = IF _listener # 0 THEN [lst EXCEPT ![_listener] = "stopped"] ELSE lst
  /\ spc' = "idle"
  /\ UNCHANGED <<now, shared, dampPrivate, rampVars, mpc, starts, stops, stopKind,
                 dampVars, workVars, cbVars>>

(* --------------------- the listener and _on_click ---------------------- *)
Running(i) == lst[i] = "running"

\* the callback returns: its locals die
CbReturn(i) ==
  /\ cpc' = [cpc EXCEPT ![i] = "idle"]
  /\ cbutton' = [cbutton EXCEPT ![i] = "no"]
  /\ ct' = [ct EXCEPT ![i] = None]
  /\ cprev' = [cprev EXCEPT ![i] = None]
  /\ cPre' = [cPre EXCEPT ![i] = FALSE]
  /\ cGap' = [cGap EXCEPT ![i] = "none"]

\* A physical press of a trigger button at time now.  Every running listener
\* calls _on_click, one event at a time (the callback of the event before has
\* returned); line 185 lets the event through and register_click_event calls
\* time.perf_counter() (line 159).
Click(button, maxClicks) ==
  /\ button \in TRIGGER_BUTTONS
  /\ clicks < maxClicks
  /\ \E i \in Starts : Running(i)
  /\ \A i \in Starts : Running(i) => cpc[i] = "idle"
  /\ clicks' = clicks + 1
  /\ cpc' = [i \in Starts |-> IF Running(i) THEN "reg_store" ELSE cpc[i]]
  /\ ct' = [i \in Starts |-> IF Running(i) THEN now ELSE ct[i]]
  /\ cbutton' = [i \in Starts |-> IF Running(i) THEN button ELSE cbutton[i]]
  /\ cPre' = [i \in Starts |-> Running(i) /\ ~_simulating /\ _work_queue = <<>>]
  /\ realPrev' = realLast
  /\ realLast' = now
  /\ UNCHANGED <<now, shared, dampPrivate, rampVars, mainVars, dampVars, workVars, cprev, cGap>>

\* if not pressed or button not in self.config["TRIGGER_BUTTONS"]: return
ClickIgnored(button, pressed) ==
  /\ ~pressed \/ button \notin TRIGGER_BUTTONS
  /\ \E i \in Starts : Running(i)
  /\ \A i \in Starts : Running(i) => cpc[i] = "idle"
  /\ UNCHANGED vars

\* register_click_event, line 159: the clock value is stored in self.last_click_time
CbRegStore(i) ==
  /\ cpc[i] = "reg_store"
  /\ last_click_time' = ct[i]
  /\ ct' = [ct EXCEPT ![i] = None]
  /\ cpc' = [cpc EXCEPT ![i] = "reg_append"]
  /\ UNCHANGED <<now, total_click_history, _work_queue, _simulating, _is_listening,
                 _listener, _running, dampPrivate, rampVars, mainVars, dampVars, workVars,
                 cbutton, cprev, clicks, cPre, cGap, realPrev, realLast>>

\* the gap between a timestamp and the last retained one before it
GapOf(history, t) ==
  IF history = <<>> THEN "none"
  ELSE IF t - history[Len(history)].t <= DOUBLE_CLICK_THRESHOLD THEN "le" ELSE "gt"

\* register_click_event, line 160: self.total_click_history.append(self.last_click_time)
CbRegAppend(i) ==
  /\ cpc[i] = "reg_append"
  /\ total_click_history' =
       Append(total_click_history, [t |-> last_click_time, synth |-> FALSE])
  /\ cGap' = [cGap EXCEPT ![i] = GapOf(total_click_history, last_click_time)]
  /\ cpc' = [cpc EXCEPT ![i] = "check_sim"]
  /\ UNCHANGED <<now, last_click_time, _work_queue, _simulating, _is_listening,
                 _listener, _running, dampPrivate, rampVars, mainVars, dampVars, workVars,
                 cbutton, ct, cprev, clicks, cPre, realPrev, realLast>>

\* if self._simulating: return
CbCheckSim(i) ==
  /\ cpc[i] = "check_sim"
  /\ IF _simulating
       THEN CbReturn(i)
       ELSE /\ cpc' = [cpc EXCEPT ![i] = "check_len"]
            /\ UNCHANGED <<cbutton, ct, cprev, cPre, cGap>>
  /\ UNCHANGED <<now, shared, dampPrivate, rampVars, mainVars, dampVars, workVars,
                 clicks, realPrev, realLast>>

\* if len(self.total_click_history) > 1:
CbCheckLen(i) ==
  /\ cpc[i] = "check_len"
  /\ IF Len(total_click_history) > 1
       THEN /\ cpc' = [cpc EXCEPT ![i] = "read_prev"]
            /\ UNCHANGED <<cbutton, ct, cprev, cPre, cGap>>
       ELSE CbReturn(i)
  /\ UNCHANGED <<now, shared, dampPrivate, rampVars, mainVars, dampVars, workVars,
                 clicks, realPrev, realLast>>

\* prev_time = self.total_click_history[-2]; an IndexError when the deque
\* holds fewer than two timestamps by now: the callback raises and its
\* listener thread ends
CbReadPrev(i) ==
  /\ cpc[i] = "read_prev"
  /\ IF Len(total_click_history) >= 2
       THEN /\ cprev' = [cprev EXCEPT ![i] =
                           total_click_history[Len(total_click_history) - 1].t]
            /\ cpc' = [cpc EXCEPT ![i] = "check_gap"]
            /\ lst' = lst
       ELSE /\ cpc' = [cpc EXCEPT ![i] = "raised"]
            /\ cprev' = cprev
            /\ lst' = [lst EXCEPT ![i] = "failed"]
  /\ UNCHANGED <<now, shared, dampPrivate, rampVars, mpc, starts, spc, stops, stopKind,
                 dampVars, workVars,
                 cbutton, ct, clicks, cPre, cGap, realPrev, realLast>>

\* if (time.perf_counter() - prev_time) <= self.config["DOUBLE_CLICK_THRESHOLD"]:
CbCheckGap(i) ==
  /\ cpc[i] = "check_gap"
  /\ IF now - cprev[i] <= DOUBLE_CLICK_THRESHOLD
       THEN /\ cpc' = [cpc EXCEPT ![i] = "check_empty"]
            /\ cprev' = [cprev EXCEPT ![i] = None]
            /\ UNCHANGED <<cbutton, ct, cPre, cGap>>
       ELSE CbReturn(i)
  /\ UNCHANGED <<now, shared, dampPrivate, rampVars, mainVars, dampVars, workVars,
                 clicks, realPrev, realLast>>

\* the callback without the test of line 197: it always goes on to put
CbCheckEmptySkipped(i) ==
  /\ cpc[i] = "check_empty"
  /\ cpc' = [cpc EXCEPT ![i] = "put"]
  /\ UNCHANGED <<now, shared, dampPrivate, rampVars, mainVars, dampVars, workVars,
                 cbutton, ct, cprev, cPre, cGap, clicks, realPrev, realLast>>

\* if self._work_queue.empty():
CbCheckEmpty(i) ==
  /\ cpc[i] = "check_empty"
  /\ IF _work_queue = <<>>
       THEN /\ cpc' = [cpc EXCEPT ![i] = "put"]
            /\ UNCHANGED <<cbutton, ct, cprev, cPre, cGap>>
       ELSE CbReturn(i)
  /\ UNCHANGED <<now, shared, dampPrivate, rampVars, mainVars, dampVars, workVars,
                 clicks, realPrev, realLast>>

\* self._work_queue.put((button, time.perf_counter()))
CbPut(i) ==
  /\ cpc[i] = "put"
  /\ _work_queue' = Append(_work_queue, <<cbutton[i], now>>)
  /\ CbReturn(i)
  /\ UNCHANGED <<now, total_click_history, last_click_time, _simulating, _is_listening,
                 _listener, _running, dampPrivate, rampVars, mainVars, dampVars, workVars,
                 clicks, realPrev, realLast>>

Callback(i) ==
  \/ CbRegStore(i) \/ CbRegAppend(i) \/ CbCheckSim(i)
  \/ CbCheckLen(i) \/ CbReadPrev(i) \/ CbCheckGap(i) \/ CbCheckEmpty(i) \/ CbPut(i)

(* --------------------------- _worker_loop ------------------------------ *)
\* while self._is_listening:
WorkerLoop(i) ==
  /\ wpc[i] = "loop"
  /\ wpc' = [wpc EXCEPT ![i] = IF _is_listening THEN "get" ELSE "done"]
  /\ UNCHANGED <<now, shared, dampPrivate, rampVars, mainVars, dampVars,
                 wbutton, wleft, wt, held, burstPresses, latePresses, delay, hold, cbVars>>

\* button, _ = self._work_queue.get(timeout=0.05); on queue.Empty: continue
WorkerGet(i) ==
  /\ wpc[i] = "get"
  /\ \/ /\ _work_queue # <<>>
        /\ wbutton' = [wbutton EXCEPT ![i] = Head(_work_queue)[1]]
        /\ _work_queue' = Tail(_work_queue)
        /\ wpc' = [wpc EXCEPT ![i] = "set_sim"]
     \/ /\ _work_queue = <<>>
        /\ wpc' = [wpc EXCEPT ![i] = "loop"]
        /\ UNCHANGED <<wbutton, _work_queue>>
  /\ UNCHANGED <<now, total_click_history, last_click_time, _simulating, _is_listening,
                 _listener, _running, dampPrivate, rampVars, mainVars, dampVars,
                 wleft, wt, held, burstPresses, latePresses, delay, hold, cbVars>>

\* a burst size drawn from 1..4
WorkerSetSimFromOne(i) ==
  /\ wpc[i] = "set_sim"
  /\ _simulating' = TRUE
  /\ \E n \in 1..4 : wleft' = [wleft EXCEPT ![i] = n]
  /\ burstPresses' = [burstPresses EXCEPT ![i] = 0]
  /\ wpc' = [wpc EXCEPT ![i] = "iter"]
  /\ UNCHANGED <<now, total_click_history, last_click_time, _work_queue, _is_listening,
                 _listener, _running, dampPrivate, rampVars, mainVars, dampVars,
                 wbutton, wt, held, latePresses, delay, hold, cbVars>>

\* self._simulating = True; clicks_to_add = random.randint(2, 4)
WorkerSetSim(i) ==
  /\ wpc[i] = "set_sim"
  /\ _simulating' = TRUE
  /\ \E n \in 2..4 : wleft' = [wleft EXCEPT ![i] = n]
  /\ burstPresses' = [burstPresses EXCEPT ![i] = 0]
  /\ wpc' = [wpc EXCEPT ![i] = "iter"]
  /\ UNCHANGED <<now, total_click_history, last_click_time, _work_queue, _is_listening,
                 _listener, _running, dampPrivate, rampVars, mainVars, dampVars,
                 wbutton, wt, held, latePresses, delay, hold, cbVars>>

\* the burst loop without the test of line 212
WorkerIterNoCheck(i) ==
  /\ wpc[i] = "iter"
  /\ wpc' = [wpc EXCEPT ![i] =
               IF wleft[i] = 0 THEN "finally" ELSE "press"]
  /\ UNCHANGED <<now, shared, dampPrivate, rampVars, mainVars, dampVars,
                 wbutton, wleft, wt, held, burstPresses, latePresses, delay, hold, cbVars>>

\* the burst loop leaving the worker on cancellation without the finally clause
WorkerIterReturns(i) ==
  /\ wpc[i] = "iter"
  /\ wpc' = [wpc EXCEPT ![i] =
               IF ~_is_listening THEN "done"
               ELSE IF wleft[i] = 0 THEN "finally" ELSE "press"]
  /\ UNCHANGED <<now, shared, dampPrivate, rampVars, mainVars, dampVars,
                 wbutton, wleft, wt, held, burstPresses, latePresses, delay, hold, cbVars>>

\* for _ in range(clicks_to_add): if not self._is_listening: break
WorkerIter(i) ==
  /\ wpc[i] = "iter"
  /\ wpc' = [wpc EXCEPT ![i] =
               IF wleft[i] = 0 \/ ~_is_listening THEN "finally" ELSE "press"]
  /\ UNCHANGED <<now, shared, dampPrivate, rampVars, mainVars, dampVars,
                 wbutton, wleft, wt, held, burstPresses, latePresses, delay, hold, cbVars>>

\* time.sleep(max(0, delay - 0.015)), self.mouse_controller.press(button),
\* and register_click_event calls time.perf_counter() (line 159)
WorkerPress(i) ==
  /\ wpc[i] = "press"
  /\ held' = held \cup {wbutton[i]}
  /\ wt' = [wt EXCEPT ![i] = now]
  /\ burstPresses' = [burstPresses EXCEPT ![i] = @ + 1]
  /\ latePresses' = IF _is_listening THEN latePresses ELSE latePresses + 1
  /\ wpc' = [wpc EXCEPT ![i] = "reg_store"]
  /\ UNCHANGED <<now, shared, dampPrivate, rampVars, mainVars, dampVars,
                 wbutton, wleft, delay, hold, cbVars>>

\* register_click_event, line 159: the clock value is stored in self.last_click_time
WorkerRegStore(i) ==
  /\ wpc[i] = "reg_store"
  /\ last_click_time' = wt[i]
  /\ wt' = [wt EXCEPT ![i] = None]
  /\ wpc' = [wpc EXCEPT ![i] = "reg_append"]
  /\ UNCHANGED <<now, total_click_history, _work_queue, _simulating, _is_listening,
                 _listener, _running, dampPrivate, rampVars, mainVars, dampVars,
                 wbutton, wleft, held, burstPresses, latePresses, delay, hold, cbVars>>

\* register_click_event, line 160: self.total_click_history.append(self.last_click_time)
WorkerRegAppend(i) ==
  /\ wpc[i] = "reg_append"
  /\ total_click_history' =
       Append(total_click_history, [t |-> last_click_time, synth |-> TRUE])
  /\ wpc' = [wpc EXCEPT ![i] = "release"]
  /\ UNCHANGED <<now, last_click_time, _work_queue, _simulating, _is_listening,
                 _listener, _running, dampPrivate, rampVars, mainVars, dampVars,
                 wbutton, wleft, wt, held, burstPresses, latePresses, delay, hold, cbVars>>

\* a burst that tests the flag after the hold and leaves before the release
WorkerReleaseUnlessStopped(i) ==
  /\ wpc[i] = "release"
  /\ held' = IF _is_listening THEN held \ {wbutton[i]} ELSE held
  /\ wleft' = [wleft EXCEPT ![i] = @ - 1]
  /\ wpc' = [wpc EXCEPT ![i] = IF _is_listening THEN "iter" ELSE "finally"]
  /\ UNCHANGED <<now, shared, dampPrivate, rampVars, mainVars, dampVars,
                 wbutton, wt, burstPresses, latePresses, delay, hold, cbVars>>

\* time.sleep(random.uniform(0.01, 0.02)), then self.mouse_controller.release(button)
WorkerRelease(i) ==
  /\ wpc[i] = "release"
  /\ held' = held \ {wbutton[i]}
  /\ wleft' = [wleft EXCEPT ![i] = @ - 1]
  /\ wpc' = [wpc EXCEPT ![i] = "iter"]
  /\ UNCHANGED <<now, shared, dampPrivate, rampVars, mainVars, dampVars,
                 wbutton, wt, burstPresses, latePresses, delay, hold, cbVars>>

\* finally: self._simulating = False
WorkerFinally(i) ==
  /\ wpc[i] = "finally"
  /\ _simulating' = FALSE
  /\ wbutton' = [wbutton EXCEPT ![i] = "no"]
  /\ wleft' = [wleft EXCEPT ![i] = 0]
  /\ burstPresses' = [burstPresses EXCEPT ![i] = 0]
  /\ wpc' = [wpc EXCEPT ![i] = "loop"]
  /\ UNCHANGED <<now, total_click_history, last_click_time, _work_queue, _is_listening,
                 _listener, _running, dampPrivate, rampVars, mainVars, dampVars,
                 wt, held, latePresses, delay, hold, cbVars>>

Worker(i) ==
  \/ WorkerLoop(i) \/ WorkerGet(i) \/ WorkerSetSim(i)
  \/ WorkerIter(i) \/ WorkerPress(i) \/ WorkerRegStore(i)
  \/ WorkerRegAppend(i) \/ WorkerRelease(i) \/ WorkerFinally(i)

(* ----------------------- SensitivityEngine.loop ------------------------ *)
\* the decision of lines 90-91 without the test of the stale timeout
is_over_limit_no_stale(count, tnow, tlast) ==
  count * 1000 >= CPS_SLOWDOWN_THRESHOLD * CPS_WINDOW_SECONDS

\* current_cps >= CPS_SLOWDOWN_THRESHOLD and time_since_last < STALE_TIMEOUT_MS,
\* where current_cps = count / CPS_WINDOW_SECONDS is what get_total_cps returned
\* (0.0 for no timestamp) and time_since_last = (now - last_click_time) * 1000
is_over_limit(count, tnow, tlast) ==
  /\ count * 1000 >= CPS_SLOWDOWN_THRESHOLD * CPS_WINDOW_SECONDS
  /\ tnow - tlast < STALE_TIMEOUT_MS

\* the ramp without the clamps of lines 97 and 99
RampWeightUnclamped(w, target) ==
  IF w > target THEN w - step_down
  ELSE IF w < target THEN w + step_up
  ELSE w

\* lines 96-99: one step of the asymmetric ramp
RampWeight(w, target) ==
  IF w > target THEN Max(target, w - step_down)
  ELSE IF w < target THEN Min(target, w + step_up)
  ELSE w

\* int(a / b) for b > 0: Python's int() truncates toward zero
TruncDiv(a, b) == IF a >= 0 THEN a \div b ELSE -((-a) \div b)

\* the counter-movement that leaves last_pos at the position read (without lines 117-119)
CounterMoveRawSync(w, lp, cur, ok) ==
  IF w < Cutoff
    THEN IF ok
      THEN LET dx == cur.x - lp.x
               dy == cur.y - lp.y
               pull_back == w - One
               irx == TruncDiv(dx * pull_back, One)
               iry == TruncDiv(dy * pull_back, One)
           IN IF (dx # 0 \/ dy # 0)
                 /\ (Abs(dx * pull_back) >= One \/ Abs(dy * pull_back) >= One)
                THEN [last_pos |-> cur,
                      cursor |-> [x |-> cur.x + irx, y |-> cur.y + iry],
                      move |-> <<irx, iry>>]
                ELSE [last_pos |-> cur, cursor |-> cur, move |-> NoMove]
      \* curr_pos = POINT() was never filled in
      ELSE [last_pos |-> Origin, cursor |-> cur, move |-> NoMove]
    \* user32.GetCursorPos(ctypes.byref(self.last_pos))
    ELSE [last_pos |-> IF ok THEN cur ELSE lp, cursor |-> cur, move |-> NoMove]

\* lines 104-127: the counter-movement of a tick with weight w, when
\* GetCursorPos succeeds (ok) or fails; gives the new last_pos, the new
\* cursor position and the relative move issued
CounterMove(w, lp, cur, ok) ==
  IF w < Cutoff
    THEN IF ok
      THEN LET dx == cur.x - lp.x
               dy == cur.y - lp.y
               pull_back == w - One
               irx == TruncDiv(dx * pull_back, One)
               iry == TruncDiv(dy * pull_back, One)
           IN IF (dx # 0 \/ dy # 0)
                 /\ (Abs(dx * pull_back) >= One \/ Abs(dy * pull_back) >= One)
                THEN [last_pos |-> [x |-> cur.x + irx, y |-> cur.y + iry],
                      cursor |-> [x |-> cur.x + irx, y |-> cur.y + iry],
                      move |-> <<irx, iry>>]
                ELSE [last_pos |-> cur, cursor |-> cur, move |-> NoMove]
      \* curr_pos = POINT() was never filled in
      ELSE [last_pos |-> Origin, cursor |-> cur, move |-> NoMove]
    \* user32.GetCursorPos(ctypes.byref(self.last_pos))
    ELSE [last_pos |-> IF ok THEN cur ELSE lp, cursor |-> cur, move |-> NoMove]

\* the eviction with the comparison of line 149 written >= instead of >
RECURSIVE EvictedAtEdge(_, _)
EvictedAtEdge(history, tnow) ==
  IF history # <<>> /\ tnow - history[1].t >= CPS_WINDOW_SECONDS
    THEN EvictedAtEdge(Tail(history), tnow)
    ELSE history

\* get_total_cps, lines 149-150: the timestamps left when every head older
\* than the window has been popped
RECURSIVE Evicted(_, _)
Evicted(history, tnow) ==
  IF history # <<>> /\ tnow - history[1].t > CPS_WINDOW_SECONDS
    THEN Evicted(Tail(history), tnow)
    ELSE history

\* get_total_cps, lines 152-156, for the timestamps left after the eviction:
\* 0.0 when none is left, else their number over the window, here in
\* thousandths of a click per second
get_total_cps(history) ==
  IF history = <<>> THEN 0
  ELSE (Len(history) * 1000 * 1000) \div CPS_WINDOW_SECONDS

\* self._running = True
DampBegin(i) ==
  /\ dpc[i] = "begin"
  /\ _running' = TRUE
  /\ dpc' = [dpc EXCEPT ![i] = "loop"]
  /\ UNCHANGED <<now, total_click_history, last_click_time, _work_queue, _simulating,
                 _is_listening, _listener, dampPrivate, rampVars, mainVars,
                 workVars, cbVars>>

\* lines 89-129 for a decision over (is_over_limit) and a cursor read that
\* succeeds (ok) or fails
LoopBody(over, ok) ==
  LET target == IF over THEN multiplier ELSE One
      w == RampWeight(current_weight, target)
      m == CounterMove(w, last_pos, cursor, ok)
  IN /\ current_weight' = w
     /\ last_pos' = m.last_pos
     /\ cursor' = m.cursor
     /\ last_move' = m.move

\* while self._running: one iteration at time now, or the end of the thread.
\* get_total_cps evicts (lines 149-150); what the rest of the iteration
\* writes, current_weight and last_pos, is read by no other thread and by
\* none of the statements of the other threads, and is followed in
\* SpecDamping, where the body runs on every sequence of inputs.
DampLoop(i) ==
  /\ dpc[i] = "loop"
  /\ IF _running
       THEN /\ total_click_history' = Evicted(total_click_history, now)
            /\ dpc' = dpc
       ELSE /\ dpc' = [dpc EXCEPT ![i] = "done"]
            /\ UNCHANGED total_click_history
  /\ UNCHANGED <<now, last_click_time, _work_queue, _simulating, _is_listening,
                 _listener, _running, dampPrivate, rampVars, mainVars, workVars, cbVars>>

Damper(i) == DampBegin(i) \/ DampLoop(i)

(* ------------------ the program as __main__ runs it -------------------- *)
Lifecycle(maxStarts) ==
  \/ StartCall(maxStarts) \/ StartSetFlag \/ StartSpawnDamper \/ StartSpawnWorker
  \/ StartNewListener \/ StartListenerStart
  \/ StopCall \/ StopClearFlag \/ EngineStop \/ StopListener

Threads ==
  \E i \in Starts : Callback(i) \/ Worker(i) \/ Damper(i)

Next ==
  \/ Lifecycle(MainStarts)
  \/ Tick(MaxTicks)
  \/ \E b \in Buttons : Click(b, MaxClicks)
  \/ \E b \in Buttons, p \in BOOLEAN : ClickIgnored(b, p)
  \/ Threads

Spec == Init /\ [][Next]_vars

(* ------------------------------ claims --------------------------------- *)

\* C1: _on_click never enqueues a trigger signal while _simulating is true,
\* and none is enqueued while a worker holds a signal it has dequeued and has
\* not yet set _simulating for.
C1_NoEnqueueWhileBusy ==
  [][Len(_work_queue') > Len(_work_queue)
       => /\ ~_simulating
          /\ \A i \in Starts : wpc[i] # "set_sim"]_vars

\* C2: the trigger queue never holds more than one signal, and a callback
\* that finds a signal pending at its test of the queue returns and leaves
\* the queue as it is.
C2_AtMostOnePending ==
  [][/\ Len(_work_queue') <= 1
     /\ \A i \in Starts :
          (cpc[i] = "check_empty" /\ _work_queue # <<>> /\ cpc'[i] # cpc[i])
            => (cpc'[i] = "idle" /\ _work_queue' = _work_queue)]_vars

\* a callback is at its test of the queue while a signal is pending
C2_Witness ==
  \E i \in Starts : cpc[i] = "check_empty" /\ Len(_work_queue) = 1

\* C3: a qualifying press that arrived with _simulating false and no signal
\* pending enqueues exactly one signal when the gap between its recorded
\* timestamp and the retained timestamp before it is at most
\* DOUBLE_CLICK_THRESHOLD, and none when the gap is greater.
C3_GapDecidesEnqueue ==
  [][\A i \in Starts :
       (cpc[i] \notin {"idle", "raised"} /\ cpc'[i] = "idle" /\ cPre[i] /\ cGap[i] # "none")
         => ((cpc[i] = "put" /\ Len(_work_queue') = Len(_work_queue) + 1)
               <=> cGap[i] = "le")]_vars

\* C10: a signal is enqueued only when the last two physical presses are
\* within DOUBLE_CLICK_THRESHOLD of one another.
C10_OnlyRealDoubleClicks ==
  [][Len(_work_queue') > Len(_work_queue)
       => (realPrev # None /\ realLast - realPrev <= DOUBLE_CLICK_THRESHOLD)]_vars

\* stop() was called once start() had been called, and both have returned
StoppedSinceStart == stopKind \in {2, 3} /\ spc = "idle" /\ mpc = "idle"

\* no loop goes on and no listener is attached
Quiet ==
  /\ ~_is_listening
  /\ ~_running
  /\ \A i \in Starts : lst[i] \notin {"created", "running"}

\* C5: stop() is safe at any point relative to start(): once a stop() called
\* after start() was called has returned (and start() too), no loop and no
\* listener is left running.
C5_StopLeavesNothingRunning == StoppedSinceStart => Quiet

(* --------------------- the threads under fair scheduling ---------------- *)
NextLive ==
  \/ Lifecycle(MainStarts)
  \/ Tick(MaxTicks)
  \/ \E b \in Buttons : Click(b, LiveClicks)
  \/ \E b \in Buttons, p \in BOOLEAN : ClickIgnored(b, p)
  \/ Threads

\* a thread that can take its next statement eventually takes it; a call of
\* start() or stop() that has begun runs to its return
Fairness ==
  /\ \A i \in Starts : WF_vars(Worker(i)) /\ WF_vars(Damper(i)) /\ WF_vars(Callback(i))
  /\ WF_vars(StartSetFlag \/ StartSpawnDamper \/ StartSpawnWorker
               \/ StartNewListener \/ StartListenerStart)
  /\ WF_vars(StopClearFlag \/ EngineStop \/ StopListener)

FairSpec == Init /\ [][NextLive]_vars /\ Fairness

\* C4: whenever _simulating is true it is eventually false again, and it is
\* false in every state in which a worker loop has returned.
C4_SimulatingResets ==
  /\ _simulating ~> ~_simulating
  /\ [](\A i \in Starts : wpc[i] = "done" => ~_simulating)

\* stop() has cut a burst short: the worker is in its finally clause with
\* clicks of the burst still to do
C4_Witness ==
  \E i \in Starts : wpc[i] = "finally" /\ wleft[i] > 0 /\ _simulating /\ ~_is_listening

\* C6: after stop() is called on a system whose start() has returned, the
\* damping loop and the worker loop eventually terminate and the listener is
\* detached.
C6_LoopsTerminate ==
  (stopKind = 3)
    ~> (\A i \in Starts : /\ dpc[i] \in {"none", "done"}
                          /\ wpc[i] \in {"none", "done"}
                          /\ lst[i] \notin {"created", "running"})

(* ------------- a host that calls start() and stop() as it likes -------- *)
\* the host calls start() and stop() from one thread, one call after another
HostStart == spc = "idle" /\ StartCall(ApiStarts)
HostStop == mpc = "idle" /\ StopCall

NextApi ==
  \/ HostStart \/ StartSetFlag \/ StartSpawnDamper \/ StartSpawnWorker
  \/ StartNewListener \/ StartListenerStart
  \/ HostStop \/ StopClearFlag \/ EngineStop \/ StopListener
  \/ \E b \in Buttons : Click(b, ApiClicks)
  \/ \E b \in Buttons, p \in BOOLEAN : ClickIgnored(b, p)
  \/ Threads

SpecApi == Init /\ [][NextApi]_vars

\* the worker threads that have been spawned and have not returned
LiveWorkers == {i \in Starts : wpc[i] \notin {"none", "done"}}

\* C9: whatever the sequence of start() and stop() calls, at most one worker
\* loop is running, and never two bursts at once.
C9_OneWorker ==
  /\ Cardinality(LiveWorkers) <= 1
  /\ Cardinality({i \in Starts : wpc[i] \in {"iter", "press", "reg_store",
                                             "reg_append", "release", "finally"}}) <= 1

(* ------------------ the damping loop, tick by tick ---------------------- *)
\* start() has returned and the damping thread has entered its loop
InitDamping ==
  /\ now = 0
  /\ total_click_history = <<>>
  /\ last_click_time = 0
  /\ _work_queue = <<>>
  /\ _simulating = FALSE
  /\ _is_listening = TRUE
  /\ _listener = 1
  /\ _running = TRUE
  /\ current_weight = One
  /\ last_pos = Origin
  /\ cursor = Origin
  /\ last_move = NoMove
  /\ lst = [i \in Starts |-> IF i = 1 THEN "running" ELSE "none"]
  /\ mpc = "idle" /\ starts = 1
  /\ spc = "idle" /\ stops = 0
  /\ dpc = [i \in Starts |-> IF i = 1 THEN "loop" ELSE "none"]
  /\ wpc = [i \in Starts |-> IF i = 1 THEN "loop" ELSE "none"]
  /\ wbutton = [i \in Starts |-> "no"]
  /\ wleft = [i \in Starts |-> 0]
  /\ burstPresses = [i \in Starts |-> 0]
  /\ latePresses = 0
  /\ delay = None /\ hold = None
  /\ current_cps = 0
  /\ wt = [i \in Starts |-> None]
  /\ cpc = [i \in Starts |-> "idle"]
  /\ cbutton = [i \in Starts |-> "no"]
  /\ ct = [i \in Starts |-> None]
  /\ cprev = [i \in Starts |-> None]
  /\ clicks = 0
  /\ held = {}
  /\ stopKind = 0
  /\ cPre = [i \in Starts |-> FALSE]
  /\ cGap = [i \in Starts |-> "none"]
  /\ realPrev = None /\ realLast = None
  /\ lastTarget = One /\ rampTicks = 0 /\ rampFrom = One

\* register_click_event (lines 158-160) run to its end by the callback or by
\* the worker between two ticks of the damping loop
RecordClick ==
  /\ clicks < MaxDampClicks
  /\ clicks' = clicks + 1
  /\ last_click_time' = now
  /\ total_click_history' = Append(total_click_history, [t |-> now, synth |-> FALSE])
  /\ UNCHANGED <<now, _work_queue, _simulating, _is_listening, _listener, _running,
                 dampPrivate, rampVars, mainVars, dampVars, workVars,
                 cpc, cbutton, ct, cprev, cPre, cGap, realPrev, realLast>>

\* One iteration of the loop at time now (lines 85-127) and its sleep of one
\* polling period (line 129).  rampFrom and rampTicks follow an unbroken run
\* of ticks with the same target that left an end of the range: the end it
\* left and the ticks it has taken.
DampTick(ok) ==
  /\ dpc[1] = "loop" /\ _running
  /\ now < MaxDampTicks * polling_ms
  /\ LET history == Evicted(total_click_history, now)
         over == is_over_limit(Len(history), now, last_click_time)
         target == IF over THEN multiplier ELSE One
         atEnd == current_weight \in {multiplier, One}
         same == target = lastTarget /\ rampFrom # None
     IN /\ total_click_history' = history
        /\ current_cps' = get_total_cps(history)
        /\ LoopBody(over, ok)
        /\ lastTarget' = target
        /\ rampFrom' = IF atEnd THEN current_weight
                       ELSE IF same THEN rampFrom ELSE None
        /\ rampTicks' = IF atEnd THEN (IF target = current_weight THEN 0 ELSE 1)
                        ELSE IF same THEN rampTicks + 1 ELSE 0
  /\ now' = now + polling_ms
  /\ UNCHANGED <<last_click_time, _work_queue, _simulating, _is_listening, _listener,
                 _running, mainVars, dampVars, workVars, cbVars>>

NextDamping ==
  \/ RecordClick
  \/ \E ok \in BOOLEAN : DampTick(ok)

SpecDamping == InitDamping /\ [][NextDamping]_vars

\* C7: a ramp from 1.0 under a condition that stays active reaches
\* SENS_MULTIPLIER after ticks that last SENS_RAMP_DOWN_MS give or take one
\* polling period, and a ramp from SENS_MULTIPLIER under a condition that
\* stays inactive reaches 1.0 after SENS_RAMP_UP_MS give or take one period.
C7_RampDurations ==
  /\ (rampFrom = One /\ current_weight = multiplier /\ rampTicks > 0)
       => Abs(rampTicks * polling_ms - SENS_RAMP_DOWN_MS) <= polling_ms
  /\ (rampFrom = multiplier /\ current_weight = One /\ rampTicks > 0)
       => Abs(rampTicks * polling_ms - SENS_RAMP_UP_MS) <= polling_ms

NextEvict ==
  \/ Lifecycle(MainStarts)
  \/ Tick(EvictTicks)
  \/ \E b \in Buttons : Click(b, EvictClicks)
  \/ \E b \in Buttons, p \in BOOLEAN : ClickIgnored(b, p)
  \/ Threads

SpecEvict == Init /\ [][NextEvict]_vars

\* C15: whatever the damping loop evicts in between, _on_click never reads a
\* second-to-last timestamp that does not exist: no callback ends in an
\* IndexError, and a read of [-2] finds two timestamps retained.
C15_NoMissingPrev ==
  /\ \A i \in Starts : cpc[i] # "raised"
  /\ \A i \in Starts : cpc[i] = "read_prev" => Len(total_click_history) >= 2

\* C16: the retained timestamps are ordered oldest first.
C16_HistoryOrdered ==
  \A k \in 1..(Len(total_click_history) - 1) :
    total_click_history[k].t <= total_click_history[k + 1].t

(* ------------------------- the burst of the worker ---------------------- *)
\* C13: a burst never has more than 4 synthetic presses, and a burst that
\* ends while the system is still active has 2, 3 or 4.
C13_BurstSize ==
  /\ \A i \in Starts : burstPresses[i] <= 4
  /\ \A i \in Starts :
       (wpc[i] = "finally" /\ _is_listening) => burstPresses[i] \in 2..4

\* a burst of four presses has ended with the system still active
C13_Witness ==
  \E i \in Starts : wpc[i] = "finally" /\ _is_listening /\ burstPresses[i] = 4

\* the worker is between a synthetic press and its release
Pressing(i) == wpc[i] \in {"reg_store", "reg_append", "release"}

\* C18: a button pressed by the worker is held exactly from the press to the
\* release of the same iteration: nothing is held at the next press, when
\* _simulating is cleared or when the worker has returned, also when stop()
\* comes during the burst.
C18_PressThenRelease ==
  /\ \A i \in Starts : Pressing(i) => wbutton[i] \in held
  /\ held # {} => /\ _simulating
                  /\ \E i \in Starts : Pressing(i) /\ held = {wbutton[i]}

\* stop() has cleared the flag while a synthetic press is held
C18_Witness ==
  held # {} /\ ~_is_listening /\ \E i \in Starts : wpc[i] = "release"

\* C19: while _is_listening is false the worker emits at most one synthetic
\* press, and every test of the flag it makes ends the burst, so that a
\* signal taken from the queue after stop() leads to no press.
C19_AfterStop ==
  [][/\ latePresses' <= 1
     /\ \A i \in Starts :
          (~_is_listening /\ wpc[i] = "iter" /\ wpc'[i] # "iter")
            => wpc'[i] = "finally"]_vars

\* the press of an iteration that had passed its test has come after stop()
C19_Witness == latePresses = 1 /\ \E i \in Starts : wpc[i] = "finally" /\ wleft[i] > 0

(* ------------------------- get_total_cps alone -------------------------- *)
\* every thread-side variable as start() and the threads' first statements leave it
StartedRest ==
  /\ _work_queue = <<>>
  /\ _simulating = FALSE
  /\ _is_listening = TRUE
  /\ _listener = 1
  /\ _running = TRUE
  /\ current_weight = One
  /\ last_move = NoMove
  /\ lst = [i \in Starts |-> IF i = 1 THEN "running" ELSE "none"]
  /\ mpc = "idle" /\ starts = 1
  /\ spc = "idle" /\ stops = 0
  /\ dpc = [i \in Starts |-> IF i = 1 THEN "loop" ELSE "none"]
  /\ wpc = [i \in Starts |-> IF i = 1 THEN "loop" ELSE "none"]
  /\ wbutton = [i \in Starts |-> "no"]
  /\ wleft = [i \in Starts |-> 0]
  /\ burstPresses = [i \in Starts |-> 0]
  /\ latePresses = 0
  /\ wt = [i \in Starts |-> None]
  /\ cpc = [i \in Starts |-> "idle"]
  /\ cbutton = [i \in Starts |-> "no"]
  /\ ct = [i \in Starts |-> None]
  /\ cprev = [i \in Starts |-> None]
  /\ clicks = 0
  /\ held = {}
  /\ stopKind = 0
  /\ cPre = [i \in Starts |-> FALSE]
  /\ cGap = [i \in Starts |-> "none"]
  /\ realPrev = None /\ realLast = None
  /\ lastTarget = One /\ rampTicks = 0 /\ rampFrom = One
  /\ current_cps = 0

RateTimes == {100 * k : k \in 0..MaxRateTime}

\* the non-decreasing sequences of at most MaxRateLen recorded timestamps
OrderedHistories ==
  {h \in UNION {[1..n -> [t : RateTimes, synth : {FALSE}]] : n \in 0..MaxRateLen} :
     \A k \in 1..(Len(h) - 1) : h[k].t <= h[k + 1].t}

\* timestamps recorded in order, the last of them in last_click_time, and a
\* query time not before it
InitRate ==
  /\ StartedRest
  /\ total_click_history \in OrderedHistories
  /\ last_click_time = IF total_click_history = <<>> THEN 0
                       ELSE total_click_history[Len(total_click_history)].t
  /\ now \in {t \in RateTimes : t >= last_click_time}
  /\ last_pos = Origin /\ cursor = Origin
  /\ delay = None /\ hold = None

\* current_cps = self.sim.get_total_cps()  (lines 146-156)
GetTotalCps ==
  /\ total_click_history' = Evicted(total_click_history, now)
  /\ current_cps' = get_total_cps(total_click_history')
  /\ UNCHANGED <<now, last_click_time, _work_queue, _simulating, _is_listening, _listener,
                 _running, current_weight, last_pos, cursor, last_move, rampVars,
                 mainVars, dampVars, workVars, cbVars>>

SpecRate == InitRate /\ [][GetTotalCps]_vars

\* the recorded timestamps t with tnow - t <= CPS_WINDOW_SECONDS
InWindow(history, tnow) ==
  {k \in 1..Len(history) : tnow - history[k].t <= CPS_WINDOW_SECONDS}

\* C12: get_total_cps returns the number of recorded timestamps within the
\* window of the query time over the window (0 when there is none), and no
\* call leaves more timestamps retained than it found.
C12_RateOfWindow ==
  [][/\ current_cps' = (Cardinality(InWindow(total_click_history, now)) * 1000 * 1000)
                         \div CPS_WINDOW_SECONDS
     /\ Len(total_click_history') <= Len(total_click_history)]_vars

\* a call has evicted a timestamp and kept one that lies exactly a window back
C12_Witness ==
  /\ current_cps > 0
  /\ Len(total_click_history) = 2
  /\ now - total_click_history[1].t = CPS_WINDOW_SECONDS
  /\ last_click_time = now

(* ----------------------- the pace within a burst ------------------------ *)
\* times of this section are in microseconds
Second == 1000000
\* min_delay = 1.0 / TARGET_CPS_RANGE[1], rounded up; max_delay = 1.0 / TARGET_CPS_RANGE[0]
min_delay == (Second + TARGET_CPS_HIGH - 1) \div TARGET_CPS_HIGH
max_delay == Second \div TARGET_CPS_LOW
\* time.sleep(max(0, delay - 0.015))
PROCESSING_OFFSET == 15000
SleepOf(d) == Max(0, d - PROCESSING_OFFSET)
\* time.sleep(random.uniform(0.01, 0.02))
HOLD_MIN == 10000
HOLD_MAX == 20000

Delays == {min_delay + (k * (max_delay - min_delay)) \div PaceGrid : k \in 0..PaceGrid}
Holds == {HOLD_MIN + (k * (HOLD_MAX - HOLD_MIN)) \div PaceGrid : k \in 0..PaceGrid}

\* the worker is in a burst, before the draws of an iteration
InitPace ==
  /\ StartedRest
  /\ now = 0 /\ total_click_history = <<>> /\ last_click_time = 0
  /\ last_pos = Origin /\ cursor = Origin
  /\ delay = None /\ hold = None

\* lines 215-224 of one iteration: delay = random.uniform(min_delay, max_delay)
\* and the hold time random.uniform(0.01, 0.02)
DrawPace ==
  /\ delay' \in Delays
  /\ hold' \in Holds
  /\ UNCHANGED <<now, shared, dampPrivate, rampVars, mainVars, dampVars,
                 wpc, wbutton, wleft, wt, held, burstPresses, latePresses, cbVars>>

SpecPace == InitPace /\ [][DrawPace]_vars

\* from one synthetic press to the next: the hold after the first, then the
\* sleep before the second
PressInterval == hold + SleepOf(delay)

\* C14: within a burst two consecutive synthetic presses are never closer
\* than 1 / HARD_CPS_LIMIT.
C14_UnderHardLimit ==
  delay # None => PressInterval * HARD_CPS_LIMIT >= Second

(* ------------------- the damping loop and the mouse --------------------- *)
\* where the cursor is when the engine is constructed
CursorStart == [x |-> 1, y |-> 1]

\* __init__ has read the cursor into last_pos (line 73) and the loop runs
InitCursor ==
  /\ StartedRest
  /\ now = 0 /\ total_click_history = <<>> /\ last_click_time = 0
  /\ cursor = CursorStart /\ last_pos = CursorStart
  /\ delay = None /\ hold = None

\* the user moves the mouse by one pixel
MouseMove(dx, dy) ==
  /\ dx # 0 \/ dy # 0
  /\ cursor.x + dx \in 1..MaxCoord /\ cursor.y + dy \in 1..MaxCoord
  /\ cursor' = [x |-> cursor.x + dx, y |-> cursor.y + dy]
  /\ UNCHANGED <<now, shared, current_weight, last_pos, last_move, current_cps,
                 rampVars, mainVars, dampVars, workVars, cbVars>>

\* the clicks of this specification are recorded within the first ticks
ClickAtStart == now <= MaxClickTick * polling_ms /\ RecordClick

\* a tick whose GetCursorPos succeeds, and one whose GetCursorPos fails
TickRead == DampTick(TRUE)
TickReadFails == DampTick(FALSE)

NextCursor ==
  \/ ClickAtStart
  \/ \E dx \in -1..1, dy \in -1..1 : MouseMove(dx, dy)
  \/ TickRead
  \/ TickReadFails

SpecCursor == InitCursor /\ [][NextCursor]_vars


\* C11: a tick with weight below 0.995 whose cursor read fails issues no
\* move, and leaves last_pos at a position the cursor was seen or put at:
\* where it was, or where the cursor is.
C11_FailedReadResyncs ==
  [][(TickReadFails /\ current_weight' < Cutoff)
       => /\ last_move' = NoMove /\ cursor' = cursor
          /\ last_pos' \in {last_pos, cursor}]_vars

\* ticks a ramp from the multiplier up to 1.0 takes
RampUpTicks == ((One - multiplier) + step_up - 1) \div step_up

\* C17: a tick that comes STALE_TIMEOUT_MS or more after the last recorded
\* click has target weight 1.0; RampUpTicks such ticks later the weight is
\* 1.0, and from then on no tick moves the cursor.
C17_StaleReleases ==
  [][(now' # now /\ now - last_click_time >= STALE_TIMEOUT_MS)
       => /\ lastTarget' = One
          /\ (now - last_click_time >= STALE_TIMEOUT_MS + RampUpTicks * polling_ms)
               => /\ current_weight = One /\ current_weight' = One
                  /\ last_move' = NoMove /\ cursor' = cursor]_vars

\* the weight is back at 1.0 after a damped spell and the mouse has moved
\* since the last tick
C17_Witness ==
  /\ now - last_click_time >= STALE_TIMEOUT_MS + RampUpTicks * polling_ms
  /\ current_weight = One /\ rampFrom = multiplier
  /\ last_move = NoMove /\ cursor # last_pos

\* k is rx = d * (w - 1.0) truncated toward zero: int(rx)
IsTrunc(k, d, w) ==
  /\ k * d * (w - One) >= 0
  /\ Abs(k) * One <= Abs(d * (w - One))
  /\ Abs(d * (w - One)) < (Abs(k) + 1) * One

\* C20: a tick with weight below 0.995 that reads a cursor displaced by
\* (dx, dy) # (0, 0) from last_pos issues one relative move by the truncated
\* (rx, ry) when |rx| >= 1 or |ry| >= 1, and last_pos becomes the position
\* read plus that same move; otherwise it issues no move and last_pos becomes
\* the position read.
C20_CounterMove ==
  [][(TickRead /\ current_weight' < Cutoff /\ cursor # last_pos)
       => LET dx == cursor.x - last_pos.x
              dy == cursor.y - last_pos.y
              w == current_weight'
          IN IF Abs(dx * (w - One)) >= One \/ Abs(dy * (w - One)) >= One
               THEN /\ last_move' # NoMove
                    /\ IsTrunc(last_move'[1], dx, w) /\ IsTrunc(last_move'[2], dy, w)
                    /\ cursor' = [x |-> cursor.x + last_move'[1], y |-> cursor.y + last_move'[2]]
                    /\ last_pos' = cursor'
               ELSE /\ last_move' = NoMove
                    /\ cursor' = cursor
                    /\ last_pos' = cursor]_vars

\* a tick at weight 0.6 has pulled the cursor back by one pixel: the
\* truncated part of a correction between 1 and 2 pixels
C20_Witness ==
  /\ last_move = <<-1, 0>>
  /\ current_weight = multiplier + step_down
  /\ last_pos = cursor

====
